---------------------------- MODULE Spec2Model ----------------------------
(***************************************************************************)
(* A model of src/src/json-completion.ts: the completion collector, the    *)
(* $ref expander, the snippet text compiler and the property / value       *)
(* proposal synthesizer behind JSONCompletion.doComplete.                  *)
(*                                                                         *)
(* JSON values are tagged records; an object keeps its entries in          *)
(* insertion order, as a JavaScript object does.  Strings are TLA+ strings *)
(* and are taken apart with Len and SubSeq.                                *)
(***************************************************************************)
EXTENDS Integers, Sequences, FiniteSets, TLC

VARIABLES
    \* ---- shared
    schema,         \* this.schema: the root schema document
    mode,           \* this.opts.mode
    addValue,       \* doComplete / getInsertTextForProperty: addValue
    rawWord,        \* getWord(ctx.state.doc, node, false)
    \* ---- one completion request (doComplete)
    pc,             \* position in doComplete
    explicit,       \* ctx.explicit
    pos,            \* ctx.pos
    node,           \* getNodeAtPosition(ctx.state, ctx.pos): kind, from, to
    prefix,         \* the typed prefix, leading quote removed (line 73)
    result,         \* the CompletionResult: from, to, options
    completions,    \* collector.completions, in Map order
    reservedKeys,   \* collector.reservedKeys
    addLog,         \* history: the Completions handed to collector.add so far
    toReserve,      \* the sibling property names still to reserve
    resolved,       \* history: getSchemas has been called
    schemas,        \* what getSchemas returned
    si,             \* index into schemas of the next fragment
    types,          \* the accumulated type set
    pending,        \* the add calls of the current fragment still to run
    branch,         \* "property" or "value" completions, "none" before
    parentKey,      \* getValueCompletions: parentKey (Absent: undefined)
    isArray,        \* getValueCompletions: node.name === TOKENS.ARRAY
    foundIdx,       \* findNodeIndexInArrayNode(node, valueNode)
    docItems,       \* labels of the elements the document array already holds
    \* ---- the snippet text compiler as a function
    propertySchema, \* getInsertTextForProperty: propertySchema
    key,            \* getInsertTextForProperty: key
    insertText,     \* what getInsertTextForProperty returned
    spc,            \* position of the snippet process
    \* ---- the reference expander and the default-value recursion
    property,       \* expandSchemaProperty's argument
    refPath,        \* getReferenceSchema: the segments still to visit
    curReference,   \* getReferenceSchema: the cursor
    dereferenced,   \* what expandSchemaProperty returned
    defSchema,      \* addDefaultValueCompletions: the schema argument
    arrayDepth,     \* addDefaultValueCompletions: the arrayDepth argument
    defAdds,        \* labels handed to collector.add by the recursion
    refSteps,       \* forEach iterations getReferenceSchema has run
    rpc,            \* position of the expander process
    \* ---- getSchemas, step by step
    pointer,        \* getSchemas: pointer
    requested,      \* history: the pointer jsonPointerForPosition returned
    subSchema,      \* getSchemas: subSchema
    fallbacks,      \* history: how often the parent pointer was resolved
    fragments,      \* what getSchemas returned
    gpc             \* position of the getSchemas process

sharedVars == <<schema, mode, addValue, rawWord>>

reqVars == <<pc, explicit, pos, node, prefix, result, completions, reservedKeys,
             addLog, toReserve, resolved, schemas, si, types, pending, branch,
             parentKey, isArray, foundIdx, docItems>>

snipVars == <<propertySchema, key, insertText, spc>>

refVars == <<property, refPath, curReference, dereferenced,
             defSchema, arrayDepth, defAdds, refSteps, rpc>>

resVars == <<pointer, requested, subSchema, fallbacks, fragments, gpc>>

vars == <<sharedVars, reqVars, snipVars, refVars, resVars>>

-----------------------------------------------------------------------------
(* Bounds of the model *)

\* depth of single-schema `items` nesting in the deepest finite schema
MaxNest == 7

-----------------------------------------------------------------------------
(* JSON values *)

Undefined == [t |-> "undefined"]
Null == [t |-> "null"]
Bool(b) == [t |-> "boolean", b |-> b]
Num(n) == [t |-> "number", n |-> n]
Str(s) == [t |-> "string", s |-> s]
Arr(a) == [t |-> "array", a |-> a]
Obj(o) == [t |-> "object", o |-> o]
\* one entry of an object: key and value
P(k, v) == [k |-> k, v |-> v]
\* a reference to a node of Heap: how an object graph holds a cycle
Ptr(i) == [t |-> "ptr", id |-> i]
\* the outcome of an operation that threw (a TypeError)
Thrown == [t |-> "throw"]

\* A schema object whose `items` is the object itself, as a dereferenced
\* recursive schema is in memory.
Heap == <<Obj(<<P("type", Str("array")), P("items", Ptr(1))>>)>>

Deref(v) == IF v.t = "ptr" THEN Heap[v.id] ELSE v

\* JavaScript's typeof
TypeOf(v) ==
    CASE v.t \in {"object", "array", "null"} -> "object"
      [] OTHER -> v.t

\* JavaScript's truthiness
Truthy(v) ==
    CASE v.t \in {"undefined", "null"} -> FALSE
      [] v.t = "boolean" -> v.b
      [] v.t = "number" -> v.n # 0
      [] v.t = "string" -> v.s # ""
      [] OTHER -> TRUE

Char(s, i) == SubSeq(s, i, i)

Digits == {"0", "1", "2", "3", "4", "5", "6", "7", "8", "9"}

\* a canonical array index as a property key
IsIndexKey(k) ==
    /\ Len(k) > 0
    /\ \A i \in 1..Len(k) : Char(k, i) \in Digits
    /\ (Len(k) = 1 \/ Char(k, 1) # "0")

Keys(o) == {o[i].k : i \in 1..Len(o)}

Lookup(o, k) ==
    IF k \in Keys(o)
    THEN o[CHOOSE i \in 1..Len(o) : o[i].k = k].v
    ELSE Undefined

\* the own enumerable entries of a value, as a spread or Object.entries sees them
OwnEntries(v) ==
    CASE v.t = "object" -> v.o
      [] v.t = "array" -> [i \in 1..Len(v.a) |-> P(ToString(i - 1), v.a[i])]
      [] OTHER -> <<>>

\* v[k] for a value v with typeof v = "object": reading a property of null throws
Get(v, k) ==
    CASE v.t = "null" -> Thrown
      [] v.t = "object" -> Deref(Lookup(v.o, k))
      [] v.t = "array" ->
            IF k = "length" THEN Num(Len(v.a))
            ELSE Deref(Lookup(OwnEntries(v), k))
      [] OTHER -> Undefined

Has(v, k) == v.t = "object" /\ k \in Keys(v.o)

-----------------------------------------------------------------------------
(* Strings *)

startsWith(s, p) == Len(p) <= Len(s) /\ SubSeq(s, 1, Len(p)) = p

\* the position of the first sep at or after i, or 0
RECURSIVE IndexFrom(_, _, _)
IndexFrom(s, sep, i) ==
    IF i > Len(s) THEN 0
    ELSE IF Char(s, i) = sep THEN i
    ELSE IndexFrom(s, sep, i + 1)

\* String.prototype.split with a one-character separator
RECURSIVE split(_, _)
split(s, sep) ==
    LET i == IndexFrom(s, sep, 1)
    IN IF i = 0 THEN <<s>>
       ELSE <<SubSeq(s, 1, i - 1)>> \o split(SubSeq(s, i + 1, Len(s)), sep)

-----------------------------------------------------------------------------
(* The reference expander *)

\* { ...a, ...b }: a's entries with b's values where b defines the key, then
\* b's other entries; index keys come first in an object's key order
SpreadRefLast(a, b) ==
    LET ea == OwnEntries(a)
        eb == OwnEntries(b)
        kept == [i \in 1..Len(ea) |->
                    IF ea[i].k \in Keys(eb) THEN P(ea[i].k, Lookup(eb, ea[i].k))
                    ELSE ea[i]]
        new == SelectSeq(eb, LAMBDA e : e.k \notin Keys(ea))
        all == kept \o new
    IN Obj(SelectSeq(all, LAMBDA e : IsIndexKey(e.k))
           \o SelectSeq(all, LAMBDA e : ~IsIndexKey(e.k)))

Spread(a, b) == SpreadRefLast(a, b)

\* Reflect.deleteProperty(o, k)
deleteProperty(o, k) == Obj(SelectSeq(o.o, LAMBDA e : e.k # k))

\* one iteration of the forEach of getReferenceSchema
RefStep(cur, seg, root) ==
    IF seg = "" THEN cur
    ELSE IF seg = "#" THEN root
    ELSE IF TypeOf(cur) = "object" THEN Get(cur, seg)
    ELSE cur

RECURSIVE RefWalk(_, _, _)
RefWalk(cur, path, root) ==
    IF path = <<>> \/ cur = Thrown THEN cur
    ELSE RefWalk(RefStep(cur, Head(path), root), Tail(path), root)

getReferenceSchema(root, ref) == RefWalk(root, split(ref, "/"), root)

\* the tail of expandSchemaProperty, once the reference is resolved
MergeRef(prop, refSchema) ==
    IF refSchema = Thrown THEN Thrown
    ELSE IF TypeOf(refSchema) = "object"
    THEN deleteProperty(Spread(prop, refSchema), "$ref")
    ELSE prop

\* whether expandSchemaProperty looks the reference up at all
HasRef(prop) == TypeOf(prop) = "object" /\ Truthy(Get(prop, "$ref"))

expandSchemaProperty(prop, root) ==
    IF prop.t = "null" THEN Thrown
    ELSE IF HasRef(prop)
    THEN IF Get(prop, "$ref").t # "string" THEN Thrown
         ELSE MergeRef(prop, getReferenceSchema(root, Get(prop, "$ref").s))
    ELSE prop

-----------------------------------------------------------------------------
(* Rendering values: JSON.stringify *)

\* a field of a Completion that is undefined
Absent == "<undefined>"

RECURSIVE Join(_, _)
Join(strs, sep) ==
    IF strs = <<>> THEN ""
    ELSE IF Len(strs) = 1 THEN strs[1]
    ELSE strs[1] \o sep \o Join(Tail(strs), sep)

\* the body of a JSON string literal: quote and backslash are escaped
RECURSIVE EscapeJSON(_)
EscapeJSON(s) ==
    IF s = "" THEN ""
    ELSE LET c == Char(s, 1)
         IN (IF c \in {"\"", "\\"} THEN "\\" \o c ELSE c)
            \o EscapeJSON(SubSeq(s, 2, Len(s)))

\* JSON.stringify(value)
RECURSIVE stringify(_)
stringify(v) ==
    CASE v.t = "string" -> "\"" \o EscapeJSON(v.s) \o "\""
      [] v.t = "number" -> ToString(v.n)
      [] v.t = "boolean" -> IF v.b THEN "true" ELSE "false"
      [] v.t = "null" -> "null"
      [] v.t = "array" ->
            "[" \o Join([i \in 1..Len(v.a) |->
                            IF v.a[i].t = "undefined" THEN "null"
                            ELSE stringify(v.a[i])], ",") \o "]"
      [] v.t = "object" ->
            LET es == SelectSeq(v.o, LAMBDA e : e.v.t # "undefined")
            IN "{" \o Join([i \in 1..Len(es) |->
                              "\"" \o EscapeJSON(es[i].k) \o "\":"
                              \o stringify(es[i].v)], ",") \o "}"
      [] OTHER -> Absent

getLabelForValue(value) == stringify(value)

\* a Completion: the fields this program sets
Completion(label, apply, type, detail, info) ==
    [label |-> label, apply |-> apply, type |-> type, detail |-> detail,
     info |-> info]

\* schema.type?.toString(): an array of types joins with commas
TypeString(type) ==
    CASE type.t = "string" -> type.s
      [] type.t = "array" -> Join([i \in 1..Len(type.a) |-> type.a[i].s], ",")
      [] OTHER -> Absent

\* schema.description
Description(s) ==
    IF Get(s, "description").t = "string" THEN Get(s, "description").s
    ELSE Absent

-----------------------------------------------------------------------------
(* addDefaultValueCompletions *)

\* /* beware of recursion */: the limit on arrayDepth
ArrayDepthLimit == 5

\* for (let i = arrayDepth; i > 0; i--) value = [value]
RECURSIVE Wrap(_, _)
Wrap(value, depth) ==
    IF depth <= 0 THEN value ELSE Wrap(Arr(<<value>>), depth - 1)

WrappedType(s, depth) ==
    IF depth > 0 THEN "array" ELSE TypeString(Get(s, "type"))

ExamplesOf(s) ==
    IF Get(s, "examples").t = "array" THEN Get(s, "examples").a ELSE <<>>

\* the Completions one invocation hands to collector.add, in order
DefaultProposalsAt(s, depth) ==
    (IF Get(s, "default").t # "undefined"
     THEN <<Completion(getLabelForValue(Wrap(Get(s, "default"), depth)),
                       Absent, WrappedType(s, depth), "Default value", Absent)>>
     ELSE <<>>)
    \o [i \in 1..Len(ExamplesOf(s)) |->
          Completion(getLabelForValue(Wrap(ExamplesOf(s)[i], depth)),
                     Absent, WrappedType(s, depth), Absent, Absent)]

\* the mutant of the guard: no limit on the depth
DescendsUnbounded(s, depth) ==
    /\ DefaultProposalsAt(s, depth) = <<>>
    /\ TypeOf(Get(s, "items")) = "object"
    /\ Get(s, "items").t # "array"

\* whether the invocation calls itself on schema.items
Descends(s, depth) ==
    /\ DefaultProposalsAt(s, depth) = <<>>
    /\ TypeOf(Get(s, "items")) = "object"
    /\ Get(s, "items").t # "array"
    /\ depth < ArrayDepthLimit

RECURSIVE addDefaultValueCompletions(_, _)
addDefaultValueCompletions(s, depth) ==
    IF s.t = "null" THEN <<Thrown>>
    ELSE DefaultProposalsAt(s, depth)
         \o (IF Descends(s, depth)
             THEN addDefaultValueCompletions(Get(s, "items"), depth + 1)
             ELSE <<>>)

-----------------------------------------------------------------------------
(* The snippet text compiler *)

\* JSON.stringify(value, null, "\t"); ind is the indentation of the enclosing line
RECURSIVE stringifyTabs(_, _)
stringifyTabs(v, ind) ==
    CASE v.t = "array" /\ v.a # <<>> ->
            "[\n" \o Join([i \in 1..Len(v.a) |->
                              ind \o "\t" \o
                              (IF v.a[i].t = "undefined" THEN "null"
                               ELSE stringifyTabs(v.a[i], ind \o "\t"))], ",\n")
            \o "\n" \o ind \o "]"
      [] v.t = "object" /\ SelectSeq(v.o, LAMBDA e : e.v.t # "undefined") # <<>> ->
            LET es == SelectSeq(v.o, LAMBDA e : e.v.t # "undefined")
            IN "{\n" \o Join([i \in 1..Len(es) |->
                                ind \o "\t\"" \o EscapeJSON(es[i].k) \o "\": "
                                \o stringifyTabs(es[i].v, ind \o "\t")], ",\n")
               \o "\n" \o ind \o "}"
      [] OTHER -> stringify(v)

\* text.replace(/[\\$}]/g, "\\$&")
RECURSIVE getInsertTextForPlainText(_)
getInsertTextForPlainText(text) ==
    IF text = "" THEN ""
    ELSE LET c == Char(text, 1)
         IN (IF c \in {"\\", "$", "}"} THEN "\\" \o c ELSE c)
            \o getInsertTextForPlainText(SubSeq(text, 2, Len(text)))

getInsertTextForValue(value, separatorAfter) ==
    LET text == stringifyTabs(value, "")
    IN IF text = "{}" THEN "{#{}}" \o separatorAfter
       ELSE IF text = "[]" THEN "[#{}]" \o separatorAfter
       ELSE getInsertTextForPlainText(text \o separatorAfter)

getInsertTextForGuessedValue(value, separatorAfter) ==
    CASE value.t = "null" -> "${null}" \o separatorAfter
      [] value.t = "string" ->
            "\"${" \o getInsertTextForPlainText(EscapeJSON(value.s)) \o "}\""
            \o separatorAfter
      [] value.t \in {"number", "boolean"} ->
            "${" \o stringify(value) \o "}" \o separatorAfter
      [] OTHER -> getInsertTextForValue(value, separatorAfter)

json5PropertyInsertSnippet(raw, value) ==
    IF startsWith(raw, "\"") THEN "\"" \o value \o "\""
    ELSE IF startsWith(raw, "'") THEN "'" \o value \o "'"
    ELSE value

\* the members of propertySchema.enum, when it is a (truthy) array
EnumOf(s) == IF Get(s, "enum").t = "array" THEN Get(s, "enum").a ELSE <<>>

\* mutant: the default is counted together with enum, const and examples
CountAllProposals(s) ==
    (IF Get(s, "default").t # "undefined" THEN 1 ELSE 0)
    + Len(EnumOf(s))
    + (IF Get(s, "const").t # "undefined" THEN 1 ELSE 0)
    + Len(ExamplesOf(s))

\* nValueProposals at line 383
nValueProposals(s) ==
    IF s.t # "object" THEN 0
    ELSE IF Get(s, "default").t # "undefined" THEN 1
    ELSE Len(EnumOf(s))
         + (IF Get(s, "const").t # "undefined" THEN 1 ELSE 0)
         + Len(ExamplesOf(s))

\* the type the skeleton is keyed by (lines 345-354)
SkeletonType(s) ==
    LET type == Get(s, "type")
        first == IF type.t = "array"
                 THEN (IF type.a = <<>> THEN Undefined ELSE type.a[1])
                 ELSE type
    IN IF Truthy(first) THEN first.s
       ELSE IF Truthy(Get(s, "properties")) THEN "object"
       ELSE IF Truthy(Get(s, "items")) THEN "array"
       ELSE Absent

\* the switch of lines 355-379
Skeleton(type, isJSON5) ==
    CASE type = "boolean" -> "#{}"
      [] type = "string" -> IF isJSON5 THEN "'#{}'" ELSE "\"#{}\""
      [] type = "object" -> "{#{}}"
      [] type = "array" -> "[#{}]"
      [] type \in {"number", "integer"} -> "#{0}"
      [] type = "null" -> "#{null}"
      [] OTHER -> "#{}"

\* `value` at line 383, Absent when it is still undefined
GuessedValue(s, isJSON5) ==
    IF s.t # "object" THEN Absent
    ELSE IF Get(s, "default").t # "undefined"
    THEN getInsertTextForGuessedValue(Get(s, "default"), "")
    ELSE IF Len(EnumOf(s)) = 1
    THEN getInsertTextForGuessedValue(EnumOf(s)[1], "")
    ELSE IF Get(s, "const").t # "undefined"
    THEN getInsertTextForGuessedValue(Get(s, "const"), "")
    ELSE IF ExamplesOf(s) # <<>>
    THEN getInsertTextForGuessedValue(ExamplesOf(s)[1], "")
    ELSE IF nValueProposals(s) = 0
    THEN Skeleton(SkeletonType(s), isJSON5)
    ELSE Absent

\* the value placeholder appended at line 395
ValuePlaceholder(s, isJSON5) ==
    IF GuessedValue(s, isJSON5) = Absent \/ nValueProposals(s) > 1
    THEN "#{}"
    ELSE GuessedValue(s, isJSON5)

\* resultText before the value (lines 299-306)
KeyText(name, raw, isJSON5) ==
    IF isJSON5 THEN json5PropertyInsertSnippet(raw, name)
    ELSE "\"" \o name \o "\""

\* propSchema is Undefined when the caller passes none; the result is
\* Thrown when expanding the reference throws
getInsertTextForProperty(name, addVal, raw, propSchema, root, isJSON5) ==
    LET expanded == IF Truthy(propSchema)
                    THEN expandSchemaProperty(propSchema, root)
                    ELSE propSchema
    IN IF expanded = Thrown THEN Thrown
       ELSE IF ~addVal THEN Str(KeyText(name, raw, isJSON5))
       ELSE IF expanded.t = "null" THEN Thrown
       ELSE Str(KeyText(name, raw, isJSON5) \o ": "
                \o ValuePlaceholder(expanded, isJSON5))

-----------------------------------------------------------------------------
(* The value proposal synthesizer *)

addEnumValueCompletions(s) ==
    (IF Get(s, "const").t # "undefined"
     THEN <<Completion(getLabelForValue(Get(s, "const")), Absent,
                       TypeString(Get(s, "type")), Absent, Description(s))>>
     ELSE <<>>)
    \o [i \in 1..Len(EnumOf(s)) |->
          Completion(getLabelForValue(EnumOf(s)[i]), Absent,
                     TypeString(Get(s, "type")), Absent, Description(s))]

addBooleanValueCompletion(value) ==
    Completion(IF value THEN "true" ELSE "false", Absent, "boolean", Absent, Absent)

addNullValueCompletion == Completion("null", Absent, "null", Absent, Absent)

\* mutant: the types are collected whether or not enum or const is there
collectTypesAlways(s) ==
    IF Get(s, "type").t = "array"
    THEN {Get(s, "type").a[i].s : i \in 1..Len(Get(s, "type").a)}
    ELSE IF Truthy(Get(s, "type")) THEN {Get(s, "type").s}
    ELSE {}

\* the types one schema adds to `types`
collectTypes(s) ==
    IF Get(s, "enum").t = "array" \/ Get(s, "const").t # "undefined" THEN {}
    ELSE IF Get(s, "type").t = "array"
    THEN {Get(s, "type").a[i].s : i \in 1..Len(Get(s, "type").a)}
    ELSE IF Truthy(Get(s, "type")) THEN {Get(s, "type").s}
    ELSE {}

\* the members of schema[k] when Array.isArray(schema[k])
Branches(s, k) == IF Get(s, k).t = "array" THEN Get(s, k).a ELSE <<>>

RECURSIVE Flatten(_)
Flatten(seqs) ==
    IF seqs = <<>> THEN <<>> ELSE Head(seqs) \o Flatten(Tail(seqs))

\* the Completions addSchemaValueCompletions hands to the collector, in call
\* order; Thrown marks the point where a TypeError ends the request
RECURSIVE SchemaValueAdds(_)
SchemaValueAdds(s) ==
    IF s.t = "null" THEN <<Thrown>>
    ELSE IF TypeOf(s) # "object" THEN <<>>
    ELSE addEnumValueCompletions(s)
         \o addDefaultValueCompletions(s, 0)
         \o Flatten([i \in 1..Len(Branches(s, "allOf")) |->
                       SchemaValueAdds(Branches(s, "allOf")[i])])
         \o Flatten([i \in 1..Len(Branches(s, "anyOf")) |->
                       SchemaValueAdds(Branches(s, "anyOf")[i])])
         \o Flatten([i \in 1..Len(Branches(s, "oneOf")) |->
                       SchemaValueAdds(Branches(s, "oneOf")[i])])

\* the types addSchemaValueCompletions accumulates
RECURSIVE SchemaTypes(_)
SchemaTypes(s) ==
    IF s.t # "object" THEN {}
    ELSE collectTypes(s)
         \cup UNION {SchemaTypes(Branches(s, "allOf")[i]) :
                        i \in 1..Len(Branches(s, "allOf"))}
         \cup UNION {SchemaTypes(Branches(s, "anyOf")[i]) :
                        i \in 1..Len(Branches(s, "anyOf"))}
         \cup UNION {SchemaTypes(Branches(s, "oneOf")[i]) :
                        i \in 1..Len(Branches(s, "oneOf"))}

\* what one addSchemaValueCompletions call does: the adds, each through the
\* plain collector or the uniqueItems wrapper, and the types
Contribution(s, unique) ==
    [adds |-> [i \in 1..Len(SchemaValueAdds(s)) |->
                  [c |-> SchemaValueAdds(s)[i], unique |-> unique]],
     types |-> SchemaTypes(s)]

NoContribution == [adds |-> <<>>, types |-> {}]

Then(a, b) == [adds |-> a.adds \o b.adds, types |-> a.types \cup b.types]

-----------------------------------------------------------------------------
(* patternProperties: regular expressions *)
(* The patterns of this model are an optional ^, literal characters and    *)
(* `.`, and an optional $; a pattern holding ( or [ does not compile.      *)

UpperCase == "ABCDEFGHIJKLMNOPQRSTUVWXYZ"
LowerCase == "abcdefghijklmnopqrstuvwxyz"

ToLower(c) ==
    IF \E i \in 1..Len(UpperCase) : Char(UpperCase, i) = c
    THEN Char(LowerCase, CHOOSE i \in 1..Len(UpperCase) : Char(UpperCase, i) = c)
    ELSE c

\* new RegExp(pattern, flags) throws
FailsToCompile(pattern) ==
    \E i \in 1..Len(pattern) : Char(pattern, i) \in {"(", "["}

\* undefined, or the compiled expression
extendedRegExp(pattern) ==
    LET ci == startsWith(pattern, "(?i)")
        body == IF ci THEN SubSeq(pattern, 5, Len(pattern)) ELSE pattern
    IN IF FailsToCompile(body) THEN Undefined
       ELSE [t |-> "regexp", source |-> body, ignoreCase |-> ci]

\* regex.test(parentKey)
RegExpTest(regex, name) ==
    LET src == regex.source
        anchoredStart == startsWith(src, "^")
        anchoredEnd == Len(src) > 0 /\ Char(src, Len(src)) = "$"
        core == SubSeq(src, IF anchoredStart THEN 2 ELSE 1,
                       IF anchoredEnd THEN Len(src) - 1 ELSE Len(src))
        Same(a, b) == a = "." \/ (IF regex.ignoreCase THEN ToLower(a) = ToLower(b)
                                  ELSE a = b)
        At(start) == /\ start + Len(core) - 1 <= Len(name)
                     /\ \A i \in 1..Len(core) :
                           Same(Char(core, i), Char(name, start + i - 1))
                     /\ anchoredStart => start = 1
                     /\ anchoredEnd => start + Len(core) - 1 = Len(name)
    IN \E start \in 1..(Len(name) + 1) : At(start)

\* regex?.test(parentKey)
PatternMatches(pattern, name) ==
    /\ extendedRegExp(pattern) # Undefined
    /\ RegExpTest(extendedRegExp(pattern), name)

-----------------------------------------------------------------------------
(* One iteration of the loop of getValueCompletions (lines 476-546) *)

\* lines 476-508: the array branch
ItemsContribution(s, inArray, hasValue, idx) ==
    LET items == Get(s, "items")
        unique == Truthy(Get(s, "uniqueItems"))
        arrayIndex == IF hasValue /\ idx >= 0 THEN idx ELSE 0
        itemSchema == IF arrayIndex + 1 <= Len(items.a)
                      THEN items.a[arrayIndex + 1] ELSE Undefined
    IN IF ~(inArray /\ Truthy(items)) THEN NoContribution
       ELSE IF items.t = "array"
       THEN (IF Truthy(itemSchema) THEN Contribution(itemSchema, unique)
             ELSE NoContribution)
       ELSE Contribution(items, unique)

\* mutant: the loop breaks at the first pattern that matches
PatternContributionFirst(s, pKey) ==
    LET pp == OwnEntries(Get(s, "patternProperties"))
        hit == SelectSeq(pp, LAMBDA e : PatternMatches(e.k, pKey))
    IN IF hit # <<>> /\ Truthy(Head(hit).v) THEN Contribution(Head(hit).v, FALSE)
       ELSE NoContribution

\* lines 519-534: every pattern that matches contributes, in key order
PatternContribution(s, pKey) ==
    LET pp == OwnEntries(Get(s, "patternProperties"))
        hit == SelectSeq(pp, LAMBDA e : PatternMatches(e.k, pKey))
        RECURSIVE All(_)
        All(es) == IF es = <<>> THEN NoContribution
                   ELSE Then(IF Truthy(Head(es).v)
                             THEN Contribution(Head(es).v, FALSE)
                             ELSE NoContribution, All(Tail(es)))
    IN All(hit)

\* lines 510-539: the property-value branch
PropertyValueContribution(s, pKey) ==
    LET props == Get(s, "properties")
        exact == IF Truthy(props) THEN Get(props, pKey) ELSE Undefined
        pp == Get(s, "patternProperties")
        patternMatched ==
            /\ Truthy(pp)
            /\ \E i \in 1..Len(OwnEntries(pp)) :
                  PatternMatches(OwnEntries(pp)[i].k, pKey)
    IN IF pKey = Absent THEN NoContribution
       ELSE IF Truthy(exact) THEN Contribution(exact, FALSE)
       ELSE IF patternMatched THEN PatternContribution(s, pKey)
       ELSE IF Truthy(Get(s, "additionalProperties"))
       THEN Contribution(Get(s, "additionalProperties"), FALSE)
       ELSE NoContribution

\* lines 540-546, with the types accumulated so far
LiteralAdds(tys) ==
    (IF "boolean" \in tys
     THEN <<[c |-> addBooleanValueCompletion(TRUE), unique |-> FALSE],
            [c |-> addBooleanValueCompletion(FALSE), unique |-> FALSE]>>
     ELSE <<>>)
    \o (IF "null" \in tys
        THEN <<[c |-> addNullValueCompletion, unique |-> FALSE]>>
        ELSE <<>>)

\* the whole iteration for an object fragment s
ValueFragment(s, inArray, pKey, hasValue, idx, tys) ==
    LET both == Then(ItemsContribution(s, inArray, hasValue, idx),
                     PropertyValueContribution(s, pKey))
    IN [adds |-> both.adds \o LiteralAdds(tys \cup both.types),
        types |-> tys \cup both.types]

-----------------------------------------------------------------------------
(* The property proposal synthesizer (lines 219-274) *)

\* value.toString() of a JSON value
RECURSIVE toString(_)
toString(v) ==
    CASE v.t = "string" -> v.s
      [] v.t \in {"number", "boolean"} -> stringify(v)
      [] v.t = "array" ->
            Join([i \in 1..Len(v.a) |->
                     IF v.a[i].t \in {"null", "undefined"} THEN ""
                     ELSE toString(v.a[i])], ",")
      [] v.t = "object" -> "[object Object]"
      [] OTHER -> ""

\* applySnippetCompletion of the Completion built for a property name
PropertyCompletion(label, applyText, detail, info) ==
    IF applyText = Thrown THEN Thrown
    ELSE Completion(label, applyText.s, "property", detail, info)

\* lines 226-246: one entry of s.properties
DeclaredProperty(e, addVal, raw, root, isJSON5) ==
    IF e.v.t = "null" THEN <<Thrown>>
    ELSE IF TypeOf(e.v) # "object" THEN <<>>
    ELSE <<PropertyCompletion(
              e.k,
              getInsertTextForProperty(e.k, addVal, raw, e.v, root, isJSON5),
              IF Get(e.v, "type").t = "undefined" THEN ""
              ELSE IF Get(e.v, "type").t = "array" THEN toString(Get(e.v, "type"))
              ELSE Get(e.v, "type").s,
              IF Get(e.v, "description").t = "undefined" THEN ""
              ELSE Get(e.v, "description").s)>>

\* lines 248-273: propertyNames.enum and propertyNames.const
NamedProperty(label, addVal, raw, root, isJSON5) ==
    PropertyCompletion(
        label,
        getInsertTextForProperty(label, addVal, raw, Undefined, root, isJSON5),
        Absent, Absent)

PropertyNamesAdds(s, addVal, raw, root, isJSON5) ==
    LET pn == Get(s, "propertyNames")
        labels == SelectSeq([i \in 1..Len(EnumOf(pn)) |-> toString(EnumOf(pn)[i])],
                            LAMBDA l : l # "")
    IN IF pn.t # "object" THEN <<>>
       ELSE [i \in 1..Len(labels) |->
                NamedProperty(labels[i], addVal, raw, root, isJSON5)]
            \o (IF Truthy(Get(pn, "const"))
                THEN <<NamedProperty(toString(Get(pn, "const")), addVal, raw,
                                     root, isJSON5)>>
                ELSE <<>>)

\* the Completions one fragment hands to collector.add, in order
PropertyFragment(s, addVal, raw, root, isJSON5) ==
    IF TypeOf(s) # "object" \/ s.t = "null" THEN <<>>
    ELSE (IF Truthy(Get(s, "properties"))
          THEN Flatten([i \in 1..Len(OwnEntries(Get(s, "properties"))) |->
                   DeclaredProperty(OwnEntries(Get(s, "properties"))[i],
                                    addVal, raw, root, isJSON5)])
          ELSE <<>>)
         \o PropertyNamesAdds(s, addVal, raw, root, isJSON5)

-----------------------------------------------------------------------------
(* getSchemas (lines 680-731) *)

\* what getSchema(draft, pointer) returns for a property the schema does not know
UnknownPropertyError ==
    Obj(<<P("type", Str("error")), P("name", Str("UnknownPropertyError")),
          P("code", Str("unknown-property-error"))>>)

\* mutant: only a missing resolution sends getSchemas to the parent pointer
NeedsFallbackMissingOnly(sub) == ~Truthy(sub)

\* lines 688-693
NeedsFallback(sub) ==
    \/ ~Truthy(sub)
    \/ Get(sub, "name") = Str("UnknownPropertyError")
    \/ Truthy(Get(sub, "enum"))
    \/ Get(sub, "type") = Str("undefined")

RECURSIVE LastIndexOf(_, _, _)
LastIndexOf(str, c, i) ==
    IF i = 0 THEN 0
    ELSE IF Char(str, i) = c THEN i
    ELSE LastIndexOf(str, c, i - 1)

\* pointer.replace(/\/[^/]*$/, "/")
ParentPointer(ptr) ==
    IF LastIndexOf(ptr, "/", Len(ptr)) = 0 THEN ptr
    ELSE SubSeq(ptr, 1, LastIndexOf(ptr, "/", Len(ptr)))

isJsonError(d) == IF d.t \in {"undefined", "null"} THEN Thrown
                  ELSE Bool(Get(d, "type") = Str("error"))

\* mutant: anyOf is looked at first, allOf last
CombinatorAnyOfFirst(sub) ==
    IF Get(sub, "anyOf").t = "array" THEN "anyOf"
    ELSE IF Get(sub, "oneOf").t = "array" THEN "oneOf"
    ELSE IF Get(sub, "allOf").t = "array" THEN "allOf"
    ELSE Absent

\* the first of allOf, oneOf, anyOf that is an array
Combinator(sub) ==
    IF Get(sub, "allOf").t = "array" THEN "allOf"
    ELSE IF Get(sub, "oneOf").t = "array" THEN "oneOf"
    ELSE IF Get(sub, "anyOf").t = "array" THEN "anyOf"
    ELSE Absent

\* what a call ends with: the value it returns, or a TypeError
Returns(v) == [thrown |-> FALSE, value |-> v]
Throws == [thrown |-> TRUE, value |-> <<>>]

\* lines 700-730: what getSchemas returns for the pointer and the resolution
\* it has arrived at
ReturnFragments(root, ptr, sub) ==
    LET branches == Branches(sub, Combinator(sub))
        expanded == [i \in 1..Len(branches) |-> expandSchemaProperty(branches[i], root)]
    IN IF ptr = "" \/ ptr = "/" THEN Returns(<<root>>)
       ELSE IF isJsonError(sub) = Thrown THEN Throws
       ELSE IF isJsonError(sub).b THEN Returns(<<>>)
       ELSE IF Combinator(sub) = Absent THEN Returns(<<sub>>)
       ELSE IF \E i \in 1..Len(expanded) : expanded[i] = Thrown THEN Throws
       ELSE Returns(<<sub>> \o expanded)

\* sub1 is getSchema(draft, pointer), sub2 getSchema(draft, parent pointer)
getSchemas(root, ptr, sub1, sub2) ==
    IF NeedsFallback(sub1) THEN ReturnFragments(root, ParentPointer(ptr), sub2)
    ELSE ReturnFragments(root, ptr, sub1)

-----------------------------------------------------------------------------
(* The completion collector (lines 35-49) *)

Labels(cs) == {cs[i].label : i \in 1..Len(cs)}

\* Map.set: a new key goes last, an existing key keeps its place
MapSet(cs, c) ==
    IF c.label \in Labels(cs)
    THEN [i \in 1..Len(cs) |-> IF cs[i].label = c.label THEN c ELSE cs[i]]
    ELSE Append(cs, c)

\* mutant: the reserved keys are not consulted
AddUnguarded(cs, reserved, c) == MapSet(cs, c)

\* mutant: the first proposal under a label is kept
AddFirstWins(cs, reserved, c) ==
    IF c.label \in reserved \/ c.label \in Labels(cs) THEN cs ELSE MapSet(cs, c)

\* CompletionCollector.add: the map after the call
CollectorAdd(cs, reserved, c) ==
    IF c.label \in reserved THEN cs ELSE MapSet(cs, c)

\* the add of the wrapper built for uniqueItems (lines 479-489): whether it
\* passes the completion on to collector.add
WrapperPasses(cs, c) == c.label \notin Labels(cs)

\* stripSurroundingQuotes of utils/node
stripSurroundingQuotes(str) ==
    LET Strip(w, q) == IF Len(w) >= 2 /\ Char(w, 1) = q /\ Char(w, Len(w)) = q
                       THEN SubSeq(w, 2, Len(w) - 1) ELSE w
    IN Strip(Strip(str, "\""), "'")

\* getWord of utils/node: the node's text, quotes stripped unless told not to
getWord(text, strip) == IF strip THEN stripSurroundingQuotes(text) ELSE text

\* .replace(/^("|')/, "") of line 73
StripLeadingQuote(str) ==
    IF startsWith(str, "\"") \/ startsWith(str, "'")
    THEN SubSeq(str, 2, Len(str)) ELSE str

\* mutant: the label is matched anywhere, not at position 0
FilterIncludes(cs, pfx) ==
    SelectSeq(cs, LAMBDA v :
        \E i \in 1..(Len(stripSurroundingQuotes(v.label)) + 1) :
            startsWith(SubSeq(stripSurroundingQuotes(v.label), i,
                              Len(stripSurroundingQuotes(v.label))), pfx))

\* lines 171-174: the manual filtering
FilterOptions(cs, pfx) ==
    SelectSeq(cs, LAMBDA v : startsWith(stripSurroundingQuotes(v.label), pfx))

-----------------------------------------------------------------------------
(* Inputs of a completion request *)

\* the root schema: the example schema of a name and an age, with definitions
Root ==
    Obj(<<P("type", Str("object")),
          P("definitions",
            Obj(<<P("X", Obj(<<P("type", Str("string")), P("default", Str("hi"))>>)),
                  P("More", Obj(<<P("properties",
                                    Obj(<<P("extra", Obj(<<P("type", Str("boolean"))>>))>>))>>))>>)),
          P("properties",
            Obj(<<P("name", Obj(<<P("type", Str("string")), P("default", Str("x"))>>)),
                  P("age", Obj(<<P("type", Str("integer"))>>)),
                  P("nick", Obj(<<P("$ref", Str("#/definitions/X"))>>))>>))>>)

Roots == {Root}

Colours == Arr(<<Str("red"), Str("green"), Str("blue")>>)

\* an object fragment with allOf branches: a boolean schema, a branch that
\* declares the same properties again, and a reference
FragProps ==
    Obj(<<P("type", Str("object")),
          P("properties",
            Obj(<<P("name", Obj(<<P("type", Str("string")),
                                  P("description", Str("outer"))>>)),
                  P("k", Obj(<<P("enum", Arr(<<Str("red")>>))>>))>>)),
          P("allOf",
            Arr(<<Bool(TRUE),
                  Obj(<<P("properties",
                          Obj(<<P("name", Obj(<<P("type", Str("integer"))>>)),
                                P("k", Obj(<<P("type", Str("string")),
                                             P("enum", Arr(<<Str("green")>>))>>))>>))>>),
                  Obj(<<P("$ref", Str("#/definitions/More"))>>)>>))>>)

FragArray ==
    Obj(<<P("type", Str("array")), P("items", Obj(<<P("enum", Colours)>>)),
          P("uniqueItems", Bool(TRUE))>>)

\* uniqueItems, and an item schema whose default repeats its enum member
FragArrayDefault ==
    Obj(<<P("type", Str("array")), P("uniqueItems", Bool(TRUE)),
          P("items", Obj(<<P("type", Str("string")),
                           P("enum", Arr(<<Str("red")>>)),
                           P("default", Str("red"))>>))>>)

\* a tuple: the second item's example repeats its default
FragTuple ==
    Obj(<<P("type", Str("array")),
          P("items", Arr(<<Obj(<<P("type", Str("boolean"))>>),
                           Obj(<<P("type", Arr(<<Str("null"), Str("string")>>)),
                                 P("default", Str("green")),
                                 P("examples", Arr(<<Str("green"), Num(1)>>))>>)>>))>>)

\* an array fragment whose allOf holds a boolean schema before an object
FragArrayAllOf ==
    Obj(<<P("items", Obj(<<P("type", Str("boolean"))>>)),
          P("allOf", Arr(<<Bool(FALSE),
                           Obj(<<P("items", Obj(<<P("enum", Arr(<<Str("blue")>>))>>))>>)>>))>>)

FragPattern ==
    Obj(<<P("properties",
            Obj(<<P("x-1", Obj(<<P("anyOf",
                                   Arr(<<Obj(<<P("const", Str("exact"))>>),
                                         Obj(<<P("type", Str("boolean"))>>)>>))>>))>>)),
          P("patternProperties",
            Obj(<<P("^x-", Obj(<<P("enum", Arr(<<Str("p")>>))>>)),
                  P("(", Obj(<<P("enum", Arr(<<Str("bad")>>))>>)),
                  P("(?i)^X", Obj(<<P("type", Str("boolean")),
                                    P("enum", Arr(<<Str("q")>>))>>))>>)),
          P("additionalProperties", Obj(<<P("type", Str("null")),
                                          P("const", Str("none"))>>))>>)

FragNames ==
    Obj(<<P("propertyNames",
            Obj(<<P("enum", Arr(<<Str("Name"), Num(1), Null>>)),
                  P("const", Str("nick"))>>)),
          P("oneOf", Arr(<<Obj(<<P("properties",
                                   Obj(<<P("age", Obj(<<P("type", Arr(<<Str("integer"),
                                                                        Str("null")>>))>>))>>))>>)>>)),
          P("anyOf", Arr(<<Obj(<<P("properties",
                                   Obj(<<P("unused", Obj(<<>>))>>))>>)>>))>>)

FragEnumOnly == Obj(<<P("enum", Arr(<<Str("a"), Str("b")>>))>>)

FragUndefinedType == Obj(<<P("type", Str("undefined"))>>)

\* what getSchema(draft, pointer) may return
Resolutions ==
    { Undefined, UnknownPropertyError, FragEnumOnly, FragUndefinedType,
      FragProps, FragArray, FragArrayDefault, FragTuple, FragArrayAllOf,
      FragPattern, FragNames }

\* what jsonPointerForPosition may return
Pointers == {"", "/", "/a", "/a/b"}

\* the nodes getNodeAtPosition may return: the kind, the offsets and the text
NodeAt(kind, from, text) ==
    [kind |-> kind, from |-> from, to |-> from + Len(text), text |-> text]

Nodes ==
    { NodeAt("PropertyName", 1, "\"n"), NodeAt("PropertyName", 1, "'a"),
      NodeAt("PropertyName", 1, "ag"),
      NodeAt("PrimitiveValue", 1, "\"g"), NodeAt("PrimitiveValue", 1, "tr"),
      NodeAt("Property", 1, "k:"),
      NodeAt("Object", 0, "{}"),
      NodeAt("Array", 1, "[]"),
      NodeAt("JsonText", 0, ""),
      NodeAt("Invalid", 1, "n") }

\* the largest index findNodeIndexInArrayNode returns
MaxIdx == 1

\* the texts of the property names already present in the object
SiblingSets == {<<>>, <<"\"name\"">>, <<"'age'", "extra">>}

\* getWord of the key of the enclosing property
ParentKeys == {"k", "x-1", "x-2"}

\* the labels of the elements already in the document's array
DocItemSets == {{}, {"\"red\""}}

\* isPropertyNameNode, isPrimitiveValueNode of utils/node, on the node kind
isPropertyNameNode(n) == n.kind = "PropertyName"
isPrimitiveValueNode(n) == n.kind = "PrimitiveValue"

\* ctx.matchBefore(/[A-Za-z0-9._]*/)?.from ?? ctx.pos, on the text before the cursor
RECURSIVE WordCharsBefore(_)
WordCharsBefore(text) ==
    IF text = "" THEN 0
    ELSE IF \/ ToLower(Char(text, Len(text))) \in {Char(LowerCase, i) : i \in 1..Len(LowerCase)}
            \/ Char(text, Len(text)) \in Digits \cup {".", "_"}
    THEN 1 + WordCharsBefore(SubSeq(text, 1, Len(text) - 1))
    ELSE 0

-----------------------------------------------------------------------------
(* Inputs of the reference expander and of the default-value recursion *)

\* n levels of single-schema `items` around leaf
RECURSIVE Nest(_, _)
Nest(n, leaf) ==
    IF n = 0 THEN leaf ELSE Obj(<<P("items", Nest(n - 1, leaf))>>)

DefX == Obj(<<P("type", Str("string")), P("default", Str("hi"))>>)

Definitions ==
    Obj(<<P("X", DefX),
          P("A", Obj(<<P("$ref", Str("#/definitions/B"))>>)),
          P("B", Obj(<<P("$ref", Str("#/definitions/A"))>>)),
          P("S", Obj(<<P("$ref", Str("#/definitions/S")),
                       P("type", Str("number"))>>)),
          P("N", Obj(<<P("type", Str("null")), P("default", Null)>>)),
          P("E", Obj(<<P("enum", Arr(<<Str("red"), Str("green")>>))>>))>>)

\* the root schema documents
RefRoots ==
    { Obj(<<P("type", Str("object")), P("definitions", Definitions)>>),
      Obj(<<P("type", Str("object")),
            P("description", Str("root")),
            P("definitions", Definitions),
            P("properties", Obj(<<P("name", DefX)>>))>>) }

Ref(path) == P("$ref", Str(path))

\* the fragments handed to expandSchemaProperty
RefProperties ==
    { Obj(<<Ref("#/definitions/X")>>),
      Obj(<<Ref("#/definitions/X"), P("type", Str("integer")),
            P("description", Str("narrowed"))>>),
      Obj(<<P("description", Str("first")), Ref("#/definitions/X"),
            P("default", Str("own"))>>),
      Obj(<<Ref("#/definitions/Missing")>>),
      Obj(<<Ref("#/definitions/Missing/deeper"), P("type", Str("string"))>>),
      Obj(<<Ref("#/definitions/X/type/length")>>),
      Obj(<<Ref("#/definitions/E/enum/1")>>),
      Obj(<<Ref("#/definitions/E/enum"), P("type", Str("string"))>>),
      Obj(<<Ref("#/definitions/N/default"), P("type", Str("string"))>>),
      Obj(<<Ref("#/definitions/N/default/x")>>),
      Obj(<<Ref("#/definitions/A"), P("type", Str("string"))>>),
      Obj(<<Ref("#/definitions/S")>>),
      Obj(<<Ref("#"), P("description", Str("self"))>>),
      Obj(<<Ref("definitions//X")>>),
      Obj(<<Ref(""), P("type", Str("string"))>>),
      Obj(<<P("type", Str("string")), P("default", Str("plain"))>>),
      Bool(TRUE) }

\* the schemas handed to addDefaultValueCompletions
DefaultSchemas ==
    { DefX,
      Obj(<<P("type", Str("array")), P("items", DefX)>>),
      Obj(<<P("examples", Arr(<<Str("a"), Num(2)>>)), P("items", DefX)>>),
      Obj(<<P("items", Arr(<<DefX>>))>>),
      Obj(<<P("type", Arr(<<Str("string"), Str("null")>>)), P("default", Null)>>),
      Nest(3, DefX),
      Nest(ArrayDepthLimit, DefX),
      Nest(MaxNest, DefX),
      Heap[1] }

-----------------------------------------------------------------------------
(* The expander and the recursion, step by step *)

\* the processes a specification does not run
ReqIdle ==
    /\ pc = "idle" /\ explicit = FALSE /\ pos = 0
    /\ node = [kind |-> "JsonText", from |-> 0, to |-> 0, text |-> ""]
    /\ prefix = "" /\ result = [from |-> 0, to |-> 0, options |-> <<>>]
    /\ completions = <<>> /\ reservedKeys = {} /\ addLog = <<>>
    /\ toReserve = <<>> /\ resolved = FALSE /\ schemas = <<>> /\ si = 1
    /\ types = {} /\ pending = <<>> /\ branch = "none" /\ parentKey = Absent
    /\ isArray = FALSE /\ foundIdx = -1 /\ docItems = {}

SnipIdle ==
    /\ propertySchema = Undefined /\ key = "" /\ insertText = Undefined
    /\ spc = "idle"

RefIdle ==
    /\ property = Undefined /\ refPath = <<>> /\ curReference = Undefined
    /\ dereferenced = Undefined /\ defSchema = Undefined /\ arrayDepth = 0
    /\ defAdds = <<>> /\ refSteps = 0 /\ rpc = "idle"

ResIdle ==
    /\ pointer = "" /\ requested = "" /\ subSchema = Undefined
    /\ fallbacks = 0 /\ fragments = <<>> /\ gpc = "idle"

InitRef ==
    /\ schema \in RefRoots
    /\ mode = "json" /\ addValue = TRUE /\ rawWord = ""
    /\ ReqIdle
    /\ SnipIdle
    /\ ResIdle
    /\ property \in RefProperties
    /\ refPath = <<>>
    /\ curReference = Undefined
    /\ dereferenced = Undefined
    /\ defSchema = Undefined
    /\ arrayDepth = 0
    /\ defAdds = <<>>
    /\ refSteps = 0
    /\ rpc = "expand"

\* expandSchemaProperty up to the call of getReferenceSchema
ExpandEntry ==
    /\ rpc = "expand"
    /\ IF property.t = "null" \/ (HasRef(property) /\ Get(property, "$ref").t # "string")
       THEN /\ rpc' = "error"
            /\ UNCHANGED <<refPath, curReference, dereferenced>>
       ELSE IF HasRef(property)
       THEN /\ refPath' = split(Get(property, "$ref").s, "/")
            /\ curReference' = schema
            /\ rpc' = "walk"
            /\ UNCHANGED dereferenced
       ELSE /\ dereferenced' = property
            /\ rpc' = "expanded"
            /\ UNCHANGED <<refPath, curReference>>
    /\ UNCHANGED <<property, defSchema, arrayDepth, defAdds, refSteps,
                   sharedVars, reqVars, snipVars, resVars>>

\* one iteration of refPath.forEach
GetReferenceSchemaStep ==
    /\ rpc = "walk"
    /\ refPath # <<>>
    /\ curReference' = RefStep(curReference, Head(refPath), schema)
    /\ refPath' = Tail(refPath)
    /\ refSteps' = refSteps + 1
    /\ rpc' = IF curReference' = Thrown THEN "error" ELSE "walk"
    /\ UNCHANGED <<property, dereferenced, defSchema, arrayDepth, defAdds,
                   sharedVars, reqVars, snipVars, resVars>>

\* getReferenceSchema returns; expandSchemaProperty merges and returns
ExpandReturn ==
    /\ rpc = "walk"
    /\ refPath = <<>>
    /\ dereferenced' = MergeRef(property, curReference)
    /\ rpc' = "expanded"
    /\ UNCHANGED <<property, refPath, curReference, defSchema,
                   arrayDepth, defAdds, refSteps,
                   sharedVars, reqVars, snipVars, resVars>>

\* addDefaultValueCompletions is called on a schema, arrayDepth = 0
DefaultEntry ==
    /\ rpc = "expanded"
    /\ \E s \in DefaultSchemas : defSchema' = s
    /\ arrayDepth' = 0
    /\ rpc' = "defaults"
    /\ UNCHANGED <<property, refPath, curReference, dereferenced,
                   defAdds, refSteps,
                   sharedVars, reqVars, snipVars, resVars>>

\* one invocation of addDefaultValueCompletions
DefaultStep ==
    /\ rpc = "defaults"
    /\ defAdds' = defAdds \o DefaultProposalsAt(defSchema, arrayDepth)
    /\ IF Descends(defSchema, arrayDepth)
       THEN /\ defSchema' = Get(defSchema, "items")
            /\ arrayDepth' = arrayDepth + 1
            /\ rpc' = "defaults"
       ELSE /\ rpc' = "done"
            /\ UNCHANGED <<defSchema, arrayDepth>>
    /\ UNCHANGED <<property, refPath, curReference, dereferenced, refSteps,
                   sharedVars, reqVars, snipVars, resVars>>

NextRef ==
    \/ ExpandEntry
    \/ GetReferenceSchemaStep
    \/ ExpandReturn
    \/ DefaultEntry
    \/ DefaultStep

\* the calls are synchronous: a step that can run does run
SpecRef == InitRef /\ [][NextRef]_vars /\ WF_vars(NextRef)

-----------------------------------------------------------------------------
(* A completion request: doComplete *)

Init ==
    /\ schema \in Roots
    /\ mode \in {"json", "json5"}
    /\ addValue = TRUE
    /\ rawWord = ""
    /\ pc = "start"
    /\ explicit \in BOOLEAN
    /\ node \in Nodes
    /\ pos \in node.from..node.to
    /\ prefix = ""
    /\ result = [from |-> pos, to |-> pos, options |-> <<>>]
    /\ completions = <<>> /\ reservedKeys = {} /\ addLog = <<>>
    /\ toReserve = <<>> /\ resolved = FALSE /\ schemas = <<>> /\ si = 1
    /\ types = {} /\ pending = <<>> /\ branch = "none" /\ parentKey = Absent
    /\ isArray = FALSE /\ foundIdx = -1 /\ docItems = {}
    /\ SnipIdle
    /\ RefIdle
    /\ ResIdle

\* mutant: the sense of ctx.explicit is inverted
NothingToCompleteInverted(n, expl) ==
    ~(isPrimitiveValueNode(n) \/ isPropertyNameNode(n)) /\ expl

\* lines 78-81: neither filling out a word nor explicitly requested
NothingToComplete(n, expl) ==
    ~(isPrimitiveValueNode(n) \/ isPropertyNameNode(n)) /\ ~expl

\* lines 88-114: the overwrite range
OverwriteRange(n, p) ==
    LET currentWord == getWord(n.text, TRUE)
        before == SubSeq(n.text, 1, p - n.from)
    IN IF isPrimitiveValueNode(n) \/ isPropertyNameNode(n)
       THEN [from |-> n.from, to |-> n.to]
       ELSE [from |-> IF n.kind = "Invalid" THEN p - WordCharsBefore(before)
                      ELSE p - Len(currentWord),
             to |-> p]

\* doComplete from its entry to the call of getPropertyCompletions or
\* getValueCompletions (lines 61-169)
DoCompleteEntry ==
    /\ pc = "start"
    /\ prefix' = StripLeadingQuote(SubSeq(node.text, 1, pos - node.from))
    /\ IF NothingToComplete(node, explicit)
       THEN /\ pc' = "done"
            /\ UNCHANGED <<result, rawWord, addValue, branch, toReserve>>
       ELSE /\ rawWord' = getWord(node.text, FALSE)
            /\ result' = [result EXCEPT !.from = OverwriteRange(node, pos).from,
                                        !.to = OverwriteRange(node, pos).to]
            /\ IF isPropertyNameNode(node)
               THEN \E noValue \in BOOLEAN, objectFound \in BOOLEAN,
                       objectFrom \in 0..node.from, siblings \in SiblingSets :
                       /\ addValue' = noValue
                       /\ IF ~objectFound
                          THEN /\ pc' = "value" /\ branch' = "value"
                               /\ toReserve' = <<>>
                          ELSE IF objectFrom = pos
                          THEN /\ pc' = "done"
                               /\ UNCHANGED <<branch, toReserve>>
                          ELSE /\ branch' = "property"
                               /\ toReserve' = siblings
                               /\ pc' = IF siblings = <<>> THEN "schemas" ELSE "reserve"
               ELSE /\ pc' = "value" /\ branch' = "value"
                    /\ UNCHANGED <<addValue, toReserve>>
    /\ UNCHANGED <<schema, mode, explicit, pos, node, completions, reservedKeys,
                   addLog, resolved, schemas, si, types, pending, parentKey,
                   isArray, foundIdx, docItems, snipVars, refVars, resVars>>

\* one turn of properties.forEach (lines 209-212): collector.reserve
Reserve ==
    /\ pc = "reserve"
    /\ reservedKeys' = reservedKeys \cup
                          {stripSurroundingQuotes(getWord(Head(toReserve), TRUE))}
    /\ toReserve' = Tail(toReserve)
    /\ pc' = IF Tail(toReserve) = <<>> THEN "schemas" ELSE "reserve"
    /\ UNCHANGED <<sharedVars, explicit, pos, node, prefix, result, completions,
                   addLog, resolved, schemas, si, types, pending, branch,
                   parentKey, isArray, foundIdx, docItems, snipVars, refVars, resVars>>

\* getValueCompletions up to the call of getSchemas (lines 440-468)
ValueEntry ==
    /\ pc = "value"
    /\ \E container \in IF isPrimitiveValueNode(node)
                        THEN {"none", "Property", "Array", "JsonText"}
                        ELSE {node.kind},
          pKey \in ParentKeys \cup {Absent},
          idx \in -1..MaxIdx, items \in DocItemSets :
          /\ parentKey' = IF container = "Property" THEN pKey ELSE Absent
          /\ isArray' = (container = "Array")
          /\ foundIdx' = IF container = "Array" /\ isPrimitiveValueNode(node)
                         THEN idx ELSE -1
          /\ docItems' = IF container = "Array" THEN items ELSE {}
          /\ IF container = "none"
             THEN /\ pending' = Contribution(schema, FALSE).adds
                  /\ types' = Contribution(schema, FALSE).types
                  /\ pc' = "loop"
             ELSE /\ UNCHANGED <<pending, types>>
                  /\ pc' = IF parentKey' # Absent \/ container = "Array"
                           THEN "schemas" ELSE "loop"
    /\ UNCHANGED <<sharedVars, explicit, pos, node, prefix, result, completions,
                   reservedKeys, addLog, toReserve, resolved, schemas, si,
                   branch, snipVars, refVars, resVars>>

\* this.getSchemas(schema, ctx) (lines 217 and 470); what the pointer of the
\* cursor is and what getSchema answers for it are inputs
GetSchemas ==
    /\ pc = "schemas"
    /\ \E ptr \in Pointers, sub1 \in Resolutions,
          sub2 \in Resolutions \cup {Undefined} :
          /\ NeedsFallback(sub1) \/ sub2 = Undefined
          /\ LET r == getSchemas(schema, ptr, sub1, sub2)
             IN IF r.thrown
                THEN /\ pc' = "error" /\ UNCHANGED schemas
                ELSE /\ pc' = "loop" /\ schemas' = r.value
    /\ resolved' = TRUE
    /\ si' = 1
    /\ UNCHANGED <<sharedVars, explicit, pos, node, prefix, result, completions,
                   reservedKeys, addLog, toReserve, types, pending, branch,
                   parentKey, isArray, foundIdx, docItems, snipVars, refVars, resVars>>

\* one turn of schemas.forEach in getPropertyCompletions (lines 219-274), up
\* to its calls of collector.add
PropertyFragmentStep ==
    /\ pc = "loop" /\ branch = "property"
    /\ pending = <<>> /\ si <= Len(schemas)
    /\ pending' = [i \in 1..Len(PropertyFragment(schemas[si], addValue, rawWord,
                                                 schema, mode = "json5")) |->
                      [c |-> PropertyFragment(schemas[si], addValue, rawWord,
                                              schema, mode = "json5")[i],
                       unique |-> FALSE]]
    /\ si' = si + 1
    /\ UNCHANGED <<sharedVars, pc, explicit, pos, node, prefix, result,
                   completions, reservedKeys, addLog, toReserve, resolved,
                   schemas, types, branch, parentKey, isArray, foundIdx,
                   docItems, snipVars, refVars, resVars>>

\* one turn of the for-of loop in getValueCompletions (lines 471-547), up to
\* its calls of add; a fragment that is not an object returns from the method
ValueFragmentStep ==
    /\ pc = "loop" /\ branch = "value"
    /\ pending = <<>> /\ si <= Len(schemas)
    /\ IF TypeOf(schemas[si]) # "object"
       THEN /\ si' = Len(schemas) + 1
            /\ UNCHANGED <<pending, types>>
       ELSE LET f == ValueFragment(schemas[si], isArray, parentKey,
                                   isPrimitiveValueNode(node), foundIdx, types)
            IN /\ pending' = f.adds
               /\ types' = f.types
               /\ si' = si + 1
    /\ UNCHANGED <<sharedVars, pc, explicit, pos, node, prefix, result,
                   completions, reservedKeys, addLog, toReserve, resolved,
                   schemas, branch, parentKey, isArray, foundIdx, docItems,
                   snipVars, refVars, resVars>>

\* the next call of add: through the uniqueItems wrapper (lines 481-485) or
\* straight to collector.add (lines 43-48); a proposal whose construction
\* threw ends the request
Add ==
    /\ pc = "loop" /\ pending # <<>>
    /\ LET h == Head(pending)
       IN IF h.c = Thrown
          THEN /\ pc' = "error"
               /\ UNCHANGED <<completions, addLog, pending>>
          ELSE /\ pc' = pc
               /\ pending' = Tail(pending)
               /\ IF h.unique /\ ~WrapperPasses(completions, h.c)
                  THEN UNCHANGED <<completions, addLog>>
                  ELSE /\ completions' = CollectorAdd(completions, reservedKeys, h.c)
                       /\ addLog' = Append(addLog, h.c)
    /\ UNCHANGED <<sharedVars, explicit, pos, node, prefix, result,
                   reservedKeys, toReserve, resolved, schemas, si, types,
                   branch, parentKey, isArray, foundIdx, docItems, snipVars,
                   refVars, resVars>>

\* lines 171-187: the manual filtering, and the return
Filter ==
    /\ pc = "loop" /\ pending = <<>> /\ si > Len(schemas)
    /\ result' = [result EXCEPT !.options = FilterOptions(completions, prefix)]
    /\ pc' = "done"
    /\ UNCHANGED <<sharedVars, explicit, pos, node, prefix, completions,
                   reservedKeys, addLog, toReserve, resolved, schemas, si,
                   types, pending, branch, parentKey, isArray, foundIdx,
                   docItems, snipVars, refVars, resVars>>

Next ==
    \/ DoCompleteEntry
    \/ Reserve
    \/ ValueEntry
    \/ GetSchemas
    \/ PropertyFragmentStep
    \/ ValueFragmentStep
    \/ Add
    \/ Filter

Spec == Init /\ [][Next]_vars

-----------------------------------------------------------------------------
(* getInsertTextForProperty as a function of its arguments *)

Lit(name, v) == Obj(<<P(name, v)>>)

\* the property schemas handed to getInsertTextForProperty
PropertySchemas ==
    { Undefined, Null, Bool(TRUE), Obj(<<>>),
      Obj(<<P("type", Str("string")), P("default", Str("x"))>>),
      Obj(<<P("default", Str("x")), P("enum", Arr(<<Str("y")>>))>>),
      Obj(<<P("default", Str("x")), P("enum", Arr(<<Str("x")>>))>>),
      Obj(<<P("default", Num(1)), P("examples", Arr(<<Num(2), Num(3)>>))>>),
      Obj(<<P("default", Bool(FALSE)), P("const", Bool(TRUE))>>),
      Lit("default", Null), Lit("default", Obj(<<>>)), Lit("default", Arr(<<>>)),
      Lit("default", Obj(<<P("a", Str("$}"))>>)),
      Lit("enum", Arr(<<Str("a")>>)),
      Lit("enum", Arr(<<Str("a"), Str("b")>>)),
      Lit("enum", Arr(<<>>)),
      Lit("const", Num(1)),
      Obj(<<P("enum", Arr(<<Str("a")>>)), P("const", Str("a"))>>),
      Lit("examples", Arr(<<Str("e")>>)),
      Lit("examples", Arr(<<Str("e"), Str("f")>>)),
      Obj(<<P("const", Str("c")), P("examples", Arr(<<Str("e")>>))>>),
      Lit("type", Str("boolean")), Lit("type", Str("string")),
      Lit("type", Str("integer")), Lit("type", Str("null")),
      Lit("type", Arr(<<Str("number"), Str("string")>>)),
      Lit("properties", Obj(<<>>)), Lit("items", Obj(<<>>)),
      Lit("$ref", Str("#/definitions/X")),
      Lit("$ref", Str("#/definitions/More")) }

\* the texts the user may have started the property name with
RawWords == {"", "\"n", "'n", "n"}

PropertyKeys == {"name", "a-b"}

InitSnippet ==
    /\ schema \in Roots
    /\ mode \in {"json", "json5"}
    /\ addValue \in BOOLEAN
    /\ rawWord \in RawWords
    /\ ReqIdle
    /\ propertySchema \in PropertySchemas
    /\ key \in PropertyKeys
    /\ insertText = Undefined
    /\ spc = "call"
    /\ RefIdle
    /\ ResIdle

\* the call: the text it returns, or the TypeError it ends with
GetInsertTextForProperty ==
    /\ spc = "call"
    /\ insertText' = getInsertTextForProperty(key, addValue, rawWord,
                                              propertySchema, schema,
                                              mode = "json5")
    /\ spc' = IF insertText' = Thrown THEN "error" ELSE "done"
    /\ UNCHANGED <<sharedVars, reqVars, propertySchema, key, refVars, resVars>>

NextSnippet == GetInsertTextForProperty

SpecSnippet == InitSnippet /\ [][NextSnippet]_vars

-----------------------------------------------------------------------------
(* getSchemas, step by step *)

\* a fragment that carries all three combinators
FragAllThree ==
    Obj(<<P("type", Str("object")),
          P("anyOf", Arr(<<Obj(<<P("type", Str("null"))>>)>>)),
          P("oneOf", Arr(<<Obj(<<P("type", Str("string"))>>)>>)),
          P("allOf", Arr(<<Obj(<<P("$ref", Str("#/definitions/X"))>>),
                           Obj(<<P("type", Str("integer"))>>)>>))>>)

FragAnyOf ==
    Obj(<<P("anyOf", Arr(<<Obj(<<P("type", Str("boolean"))>>),
                           Obj(<<P("$ref", Str("#/definitions/More"))>>)>>))>>)

\* a JsonError that is not an UnknownPropertyError
OtherError ==
    Obj(<<P("type", Str("error")), P("name", Str("InvalidTypeError")),
          P("code", Str("invalid-type-error"))>>)

\* what getSchema(draft, pointer) may return to getSchemas
ResolveInputs == Resolutions \cup {FragAllThree, FragAnyOf, OtherError}

InitResolve ==
    /\ schema \in Roots
    /\ mode = "json" /\ addValue = TRUE /\ rawWord = ""
    /\ ReqIdle
    /\ SnipIdle
    /\ RefIdle
    /\ pointer \in Pointers
    /\ requested = pointer
    /\ subSchema = Undefined
    /\ fallbacks = 0
    /\ fragments = <<>>
    /\ gpc = "resolve"

\* line 686: let subSchema = getSchema(draft, pointer)
ResolveStep ==
    /\ gpc = "resolve"
    /\ subSchema' \in ResolveInputs
    /\ gpc' = "check"
    /\ UNCHANGED <<sharedVars, reqVars, snipVars, refVars, pointer, requested,
                   fallbacks, fragments>>

\* lines 688-696: the parent pointer is tried when the resolution is no use
FallbackStep ==
    /\ gpc = "check"
    /\ IF NeedsFallback(subSchema)
       THEN /\ pointer' = ParentPointer(pointer)
            /\ subSchema' \in ResolveInputs
            /\ fallbacks' = fallbacks + 1
       ELSE UNCHANGED <<pointer, subSchema, fallbacks>>
    /\ gpc' = "return"
    /\ UNCHANGED <<sharedVars, reqVars, snipVars, refVars, requested, fragments>>

\* lines 700-730: the return, or the TypeError
ReturnStep ==
    /\ gpc = "return"
    /\ IF ReturnFragments(schema, pointer, subSchema).thrown
       THEN gpc' = "error" /\ UNCHANGED fragments
       ELSE /\ gpc' = "done"
            /\ fragments' = ReturnFragments(schema, pointer, subSchema).value
    /\ UNCHANGED <<sharedVars, reqVars, snipVars, refVars, pointer, requested,
                   subSchema, fallbacks>>

NextResolve ==
    \/ ResolveStep
    \/ FallbackStep
    \/ ReturnStep

SpecResolve == InitResolve /\ [][NextResolve]_vars

-----------------------------------------------------------------------------
(* Claims about the reference expander (checked under SpecRef) *)

\* expandSchemaProperty has returned normally
Expanded == rpc \in {"expanded", "defaults", "done"}

\* the segments of the fragment's $ref that name a property
RefSegments ==
    IF HasRef(property) /\ Get(property, "$ref").t = "string"
    THEN split(Get(property, "$ref").s, "/")
    ELSE <<>>

\* The value a JSON pointer names, read off the document: Undefined as soon
\* as a segment names nothing on the value reached so far.
RECURSIVE PointerTarget(_, _, _)
PointerTarget(cur, path, root) ==
    IF path = <<>> THEN cur
    ELSE IF Head(path) = "" THEN PointerTarget(cur, Tail(path), root)
    ELSE IF Head(path) = "#" THEN PointerTarget(root, Tail(path), root)
    ELSE IF cur.t = "object" /\ Head(path) \in Keys(cur.o)
    THEN PointerTarget(Lookup(cur.o, Head(path)), Tail(path), root)
    ELSE IF cur.t = "array" /\ Head(path) \in Keys(OwnEntries(cur))
    THEN PointerTarget(Lookup(OwnEntries(cur), Head(path)), Tail(path), root)
    ELSE Undefined

Target == PointerTarget(schema, RefSegments, schema)

\* C4: when a fragment carrying $ref is merged with the fragment the
\* reference resolves to, every key defined on both keeps the value of the
\* referencing fragment, and keys only on the referenced fragment fill the gaps.
C4_ReferencingKeysWin ==
    (Expanded /\ HasRef(property) /\ Target.t = "object") =>
        /\ \A k \in Keys(property.o) \ {"$ref"} :
              Get(dereferenced, k) = Get(property, k)
        /\ \A k \in Keys(Target.o) \ (Keys(property.o) \cup {"$ref"}) :
              Get(dereferenced, k) = Get(Target, k)

\* C5: expanding never changes the input fragment or the root schema; a
\* fragment without $ref is returned unchanged; a fragment whose $ref target
\* does not resolve to an object (a path segment is missing) is returned
\* unchanged with its $ref intact; a resolved expansion has no $ref key.
C5_ExpandFrame ==
    /\ [][property' = property /\ schema' = schema]_vars
    /\ [](rpc \notin {"expand", "walk"} =>
            /\ ~HasRef(property) => (Expanded /\ dereferenced = property)
            /\ (HasRef(property) /\ Target.t = "undefined") =>
                  (Expanded /\ dereferenced = property)
            /\ (HasRef(property) /\ Expanded /\ Target.t \in {"object", "array"}) =>
                  ~Has(dereferenced, "$ref"))

\* C9: the expander runs one forEach iteration per segment of the $ref, the
\* array-wrapping recursion never passes depth 5, and the calls return.
C9_Terminates ==
    /\ [](refSteps <= Len(RefSegments) /\ arrayDepth <= ArrayDepthLimit)
    /\ <>(rpc \in {"done", "error"})

\* a self-referencing $ref was expanded and the recursion was cut at the
\* limit on a schema whose items nest without end
C9_Witness ==
    /\ rpc = "done"
    /\ property = Obj(<<Ref("#/definitions/S")>>)
    /\ refSteps = 3
    /\ Has(Get(schema, "definitions"), "S")
    /\ defSchema = Heap[1]
    /\ arrayDepth = ArrayDepthLimit
    /\ TypeOf(Get(defSchema, "items")) = "object"

-----------------------------------------------------------------------------
(* Claims about a completion request *)

Range(seq) == {seq[i] : i \in 1..Len(seq)}

\* C1: no proposal whose label is reserved is ever in the collector's map or
\* in the returned proposal list: reserve wins over every later add
C1_ReserveWins ==
    \A l \in reservedKeys :
        /\ l \notin Labels(completions)
        /\ l \notin Labels(result.options)

\* a finished property request in which add was called with a reserved label
C1_Witness ==
    /\ pc = "done" /\ branch = "property"
    /\ \E i \in 1..Len(addLog) : addLog[i].label \in reservedKeys
    /\ result.options # <<>>

\* the index of the most recent add with label l
LastAdd(l) ==
    CHOOSE i \in 1..Len(addLog) :
        /\ addLog[i].label = l
        /\ \A j \in (i + 1)..Len(addLog) : addLog[j].label # l

\* C2: the map holds at most one proposal per label; for every label that is
\* not reserved it is the proposal of the most recent add with that label; an
\* add with a reserved label leaves the map unchanged
C2_LastWriteWins ==
    /\ [](/\ \A i, j \in 1..Len(completions) :
                completions[i].label = completions[j].label => i = j
          /\ \A l \in Labels(addLog) \ reservedKeys :
                \E k \in 1..Len(completions) : completions[k] = addLog[LastAdd(l)]
          /\ Labels(completions) \subseteq Labels(addLog) \ reservedKeys)
    /\ [][(/\ Len(addLog') = Len(addLog) + 1
           /\ addLog'[Len(addLog')].label \in reservedKeys)
          => completions' = completions]_vars

\* two different proposals were added under one label that is not reserved
C2_Witness ==
    /\ pc = "done"
    /\ \E i, j \in 1..Len(addLog) :
          /\ i < j
          /\ addLog[i].label = addLog[j].label
          /\ addLog[i] # addLog[j]
          /\ addLog[i].label \notin reservedKeys

\* the label without its surrounding quotes starts with p at position 0
StartsAtZero(label, p) ==
    LET u == stripSurroundingQuotes(label)
    IN /\ Len(p) <= Len(u)
       /\ \A i \in 1..Len(p) : Char(u, i) = Char(p, i)

\* the characters a typed prefix may be extended by
NextTyped == {"a", "g", "n", "r", "e", "A", "\""}

\* C3: the returned proposals are exactly the collected proposals whose
\* unquoted label starts with the typed prefix; the result for a prefix
\* includes the result for each of its extensions; filtering the result again
\* changes nothing
C3_PrefixFilter ==
    pc = "done" =>
        /\ Range(result.options) =
              {c \in Range(completions) : StartsAtZero(c.label, prefix)}
        /\ \A ch \in NextTyped :
              Range(FilterOptions(completions, prefix \o ch))
                 \subseteq Range(result.options)
        /\ FilterOptions(result.options, prefix) = result.options

\* a typed prefix that keeps some of the collected proposals and drops others
C3_Witness ==
    /\ pc = "done" /\ prefix # ""
    /\ result.options # <<>>
    /\ Len(result.options) < Len(completions)

\* C7: for an array whose schema declares uniqueItems, no value is proposed
\* that is already an element of the array in the document
C7_UniqueItemsSuppressesPresent ==
    (/\ pc = "done" /\ isArray
     /\ \A i \in 1..Len(schemas) :
           TypeOf(schemas[i]) = "object" /\ Truthy(Get(schemas[i], "items"))
              => Truthy(Get(schemas[i], "uniqueItems")))
    => \A i \in 1..Len(result.options) : result.options[i].label \notin docItems

\* what the fragment s proposes by itself, outside a uniqueItems wrapper
OwnProposals(s) ==
    {a.c : a \in {b \in Range(Then(ItemsContribution(s, isArray,
                                        isPrimitiveValueNode(node), foundIdx),
                                   PropertyValueContribution(s, parentKey)).adds) :
                     ~b.unique /\ b.c # Thrown}}

\* C8: in value completion a fragment that is not a plain object contributes
\* nothing and does not keep the fragments after it from contributing
C8_NonObjectFragmentSkipped ==
    (pc = "done" /\ branch = "value")
    => \A i \in 1..Len(schemas) :
          TypeOf(schemas[i]) = "object"
             => OwnProposals(schemas[i]) \subseteq Range(addLog)

\* C10: when the node at the cursor is neither a primitive value nor a
\* property name and the request is not explicit, the request returns an
\* empty list with from = to = the cursor offset, and neither resolves a
\* schema nor touches the collector
C10_EarlyReturn ==
    (~isPrimitiveValueNode(node) /\ ~isPropertyNameNode(node) /\ ~explicit)
    => /\ pc \in {"start", "done"}
       /\ result = [from |-> pos, to |-> pos, options |-> <<>>]
       /\ ~resolved
       /\ completions = <<>> /\ addLog = <<>> /\ reservedKeys = {}

\* such a request has returned, the cursor being inside the node's text
C10_Witness ==
    /\ pc = "done"
    /\ ~isPrimitiveValueNode(node) /\ ~isPropertyNameNode(node) /\ ~explicit
    /\ pos > node.from

-----------------------------------------------------------------------------
(* Claims about the snippet text compiler (checked under SpecSnippet) *)

\* the schema the placeholder is computed from
SnippetSchema == expandSchemaProperty(propertySchema, schema)

\* the value placeholder: the returned text after the key and ": "
Placeholder ==
    SubSeq(insertText.s,
           Len(KeyText(key, rawWord, mode = "json5")) + 3, Len(insertText.s))

Defined(s, name) == Get(s, name).t # "undefined"

\* the literal candidates other than the default, in the order enum, const, examples
OtherCandidates(s) ==
    EnumOf(s) \o (IF Defined(s, "const") THEN <<Get(s, "const")>> ELSE <<>>)
              \o ExamplesOf(s)

\* the literal candidates among default, enum, const and examples
LiteralCandidates(s) ==
    (IF Defined(s, "default") THEN <<Get(s, "default")>> ELSE <<>>)
    \o OtherCandidates(s)

\* the placeholders that hold no literal: the type skeletons
Skeletons == {"#{}", "\"#{}\"", "'#{}'", "{#{}}", "[#{}]", "#{0}", "#{null}"}

\* a snippet with a value placeholder was returned for an object schema
ValueSnippetReturned ==
    /\ spc = "done" /\ addValue
    /\ propertySchema.t = "object" /\ SnippetSchema.t = "object"

-----------------------------------------------------------------------------
(* Claims about the property-value branch and the pointer resolver *)

\* the generic proposals of lines 540-546
Generic ==
    {addBooleanValueCompletion(TRUE), addBooleanValueCompletion(FALSE),
     addNullValueCompletion}

\* the indices of the patterns of s that compile and match parentKey
MatchingPatterns(s) ==
    {i \in 1..Len(OwnEntries(Get(s, "patternProperties"))) :
        PatternMatches(OwnEntries(Get(s, "patternProperties"))[i].k, parentKey)}

ExactSchema(s) ==
    IF Truthy(Get(s, "properties")) THEN Get(Get(s, "properties"), parentKey)
    ELSE Undefined

\* the pattern schemas that apply when only the first match counts
FirstPattern(s) ==
    {OwnEntries(Get(s, "patternProperties"))[i].v : i \in
        {j \in MatchingPatterns(s) : \A k \in MatchingPatterns(s) : j <= k}}

\* the pattern schemas that apply when every match counts
EveryPattern(s) ==
    {OwnEntries(Get(s, "patternProperties"))[i].v : i \in MatchingPatterns(s)}

\* the schemas of fragment s that apply to the value of parentKey, the
\* patterns that apply being given
Applicable(s, patterns) ==
    IF Truthy(ExactSchema(s)) THEN {ExactSchema(s)}
    ELSE IF Truthy(Get(s, "patternProperties")) /\ MatchingPatterns(s) # {}
    THEN patterns
    ELSE IF Truthy(Get(s, "additionalProperties"))
    THEN {Get(s, "additionalProperties")}
    ELSE {}

\* a finished value request for the value of a property, every fragment an object
PropertyValueDone ==
    /\ pc = "done" /\ branch = "value" /\ parentKey # Absent
    /\ \A i \in 1..Len(schemas) : TypeOf(schemas[i]) = "object"

\* C11 as stated: per fragment only the first matching branch among
\* properties, patternProperties, additionalProperties applies, and within
\* patternProperties only the first pattern that matches the parent key
C11_FirstPatternOnly ==
    PropertyValueDone =>
        Range(addLog) \ Generic =
            UNION {Range(SchemaValueAdds(a)) :
                     a \in UNION {Applicable(schemas[i], FirstPattern(schemas[i])) :
                                     i \in 1..Len(schemas)}} \ Generic

\* C11, amended: per fragment only the first matching branch among
\* properties, patternProperties, additionalProperties applies; within
\* patternProperties every pattern that compiles and matches the parent key
\* contributes, in declaration order; a pattern that does not compile never
\* matches
C11_EveryMatchingPattern ==
    PropertyValueDone =>
        /\ Range(addLog) \ Generic =
              UNION {Range(SchemaValueAdds(a)) :
                       a \in UNION {Applicable(schemas[i], EveryPattern(schemas[i])) :
                                       i \in 1..Len(schemas)}} \ Generic
        /\ \A i \in 1..Len(schemas) :
              \A j \in 1..Len(OwnEntries(Get(schemas[i], "patternProperties"))) :
                 LET e == OwnEntries(Get(schemas[i], "patternProperties"))[j]
                 IN extendedRegExp(e.k) = Undefined
                       => Range(SchemaValueAdds(e.v)) \cap Range(addLog) = {}

\* two patterns of one fragment match the parent key and both have contributed
C11_Witness ==
    /\ PropertyValueDone
    /\ \E i \in 1..Len(schemas) :
          /\ ~Truthy(ExactSchema(schemas[i]))
          /\ Cardinality(MatchingPatterns(schemas[i])) > 1
          /\ \A a \in EveryPattern(schemas[i]) :
                Range(SchemaValueAdds(a)) # {}
                /\ Range(SchemaValueAdds(a)) \subseteq Range(addLog)

\* the combinators in the order of their priority
Priority == <<"allOf", "oneOf", "anyOf">>

\* the combinators the fragment f carries
Carried(f) == {i \in 1..3 : Get(f, Priority[i]).t = "array"}

\* getSchemas has returned the fragments of a resolution that is not the root
\* short-circuit and not a structural error
Resolved ==
    /\ gpc = "done"
    /\ pointer \notin {"", "/"}
    /\ fragments # <<>>

\* C12: the result is the resolved fragment followed by the reference-expanded
\* branches of exactly one combinator, allOf before oneOf before anyOf; the
\* branches of the other combinators are not in it; without a combinator the
\* result has one element
C12_OneCombinator ==
    Resolved =>
        /\ fragments[1] = subSchema
        /\ Carried(subSchema) = {} => Len(fragments) = 1
        /\ \A i \in Carried(subSchema) :
              IF \A j \in Carried(subSchema) : i <= j
              THEN /\ Len(fragments) = 1 + Len(Get(subSchema, Priority[i]).a)
                   /\ \A n \in 1..Len(Get(subSchema, Priority[i]).a) :
                         fragments[n + 1] =
                            expandSchemaProperty(Get(subSchema, Priority[i]).a[n],
                                                 schema)
              ELSE \A n \in 1..Len(Get(subSchema, Priority[i]).a) :
                      expandSchemaProperty(Get(subSchema, Priority[i]).a[n], schema)
                         \notin Range(fragments)

\* a fragment carrying all three combinators has been resolved
C12_Witness ==
    /\ Resolved
    /\ Carried(subSchema) = {1, 2, 3}
    /\ Len(fragments) = 3

\* the schema a and the schemas nested in it through allOf, anyOf and oneOf
RECURSIVE SchemaNodes(_)
SchemaNodes(a) ==
    IF a.t # "object" THEN {}
    ELSE {a} \cup UNION {SchemaNodes(b) :
                            b \in Range(Branches(a, "allOf"))
                                  \cup Range(Branches(a, "anyOf"))
                                  \cup Range(Branches(a, "oneOf"))}

HasEnumOrConst(n) == Get(n, "enum").t = "array" \/ Defined(n, "const")

\* the types the schema node n declares
DeclaredTypes(n) ==
    IF Get(n, "type").t = "array" THEN {t.s : t \in Range(Get(n, "type").a)}
    ELSE IF Get(n, "type").t = "string" THEN {Get(n, "type").s}
    ELSE {}

\* the schemas applied to the value of parentKey, over all fragments
AppliedSchemas ==
    UNION {Applicable(schemas[i], EveryPattern(schemas[i])) : i \in 1..Len(schemas)}

\* the generic proposals are added only for a type in the accumulated set
GenericOnlyForType ==
    /\ (addBooleanValueCompletion(TRUE) \in Range(addLog)
        \/ addBooleanValueCompletion(FALSE) \in Range(addLog))
          => "boolean" \in types
    /\ addNullValueCompletion \in Range(addLog) => "null" \in types

\* C13 as stated: the generic true / false / null proposals are added only
\* when the accumulated type set holds boolean, respectively null, and never
\* when the matched schemas hold an enum or const anywhere, their allOf /
\* anyOf / oneOf branches included
C13_EnumSuppressesGeneric ==
    PropertyValueDone =>
        /\ GenericOnlyForType
        /\ (/\ AppliedSchemas # {}
            /\ \A a \in AppliedSchemas : \E n \in SchemaNodes(a) : HasEnumOrConst(n))
              => Range(addLog) \cap Generic = {}

\* C13, amended: the generic proposals are added only when the accumulated
\* type set holds boolean, respectively null; a schema node that itself
\* carries enum or const adds nothing to that set, every other node of the
\* matched schemas (the schema itself, its allOf / anyOf / oneOf branches)
\* adds the types it declares
C13_EnumNodeAddsNoType ==
    PropertyValueDone =>
        /\ GenericOnlyForType
        /\ types = UNION {DeclaredTypes(n) :
                            n \in {m \in UNION {SchemaNodes(a) : a \in AppliedSchemas} :
                                      ~HasEnumOrConst(m)}}

\* a matched schema holds a const in one branch and the type boolean in
\* another, and true / false are proposed
C13_Witness ==
    /\ PropertyValueDone
    /\ \E a \in AppliedSchemas :
          /\ \E n \in SchemaNodes(a) : HasEnumOrConst(n)
          /\ \E n \in SchemaNodes(a) : "boolean" \in DeclaredTypes(n)
    /\ addBooleanValueCompletion(TRUE) \in Range(addLog)

\* the parent of each pointer: the last segment stripped, the slash kept
ParentOf == [p \in Pointers |->
                CASE p = "/a/b" -> "/a/"
                  [] p = "/a" -> "/"
                  [] OTHER -> p]

\* the resolutions that send getSchemas to the parent pointer
Unusable(sub) ==
    \/ sub = Undefined
    \/ sub = UnknownPropertyError
    \/ Defined(sub, "enum")
    \/ Get(sub, "type") = Str("undefined")

\* C14 as stated: at most one fallback; a structural error as the final
\* resolution gives the empty sequence; [rootSchema] is returned only when
\* the pointer of the request is empty or "/"
C14_RootOnlyForRootRequest ==
    /\ fallbacks <= 1
    /\ (gpc = "done" /\ pointer \notin {"", "/"}
        /\ Get(subSchema, "type") = Str("error")) => fragments = <<>>
    /\ (gpc = "done" /\ fragments = <<schema>>) => requested \in {"", "/"}

\* C14, amended: at most one fallback, taken exactly when the first
\* resolution is missing, an unknown-property error, carries an enum or has
\* the type "undefined", and then to the parent pointer; a structural error
\* as the final resolution gives the empty sequence; [rootSchema] is returned
\* exactly when the pointer, the parent pointer after a fallback, is empty
\* or "/"
C14_RootForFinalPointer ==
    /\ [](/\ fallbacks <= 1
          /\ (gpc = "done" /\ pointer \notin {"", "/"}
              /\ Get(subSchema, "type") = Str("error")) => fragments = <<>>
          /\ gpc = "done" => (fragments = <<schema>> <=> pointer \in {"", "/"})
          /\ pointer = IF fallbacks = 0 THEN requested ELSE ParentOf[requested])
    /\ [][gpc = "check" =>
             IF Unusable(subSchema)
             THEN fallbacks' = fallbacks + 1 /\ pointer' = ParentOf[pointer]
             ELSE UNCHANGED <<pointer, subSchema, fallbacks>>]_vars

\* a one-segment pointer had no usable resolution, and the root schema was
\* returned after the fallback
C14_Witness ==
    /\ gpc = "done"
    /\ requested = "/a" /\ fallbacks = 1
    /\ fragments = <<schema>>

=============================================================================
